---- MODULE Spec2Model ----
(***************************************************************************)
(* Model of the VivaPortugal AI backend's response sanitising code:        *)
(*   - normalizeCrop, in its two variants (fixed fallback / rescale),      *)
(*   - validateAIResponse with ALLOWED_BOARDS and FALLBACK_CROP,           *)
(*   - the relative -> pixel crop computation of POST /api/upload.         *)
(*                                                                         *)
(* Numbers.  Crop fractions are fixed-point integers counting 1/Scale      *)
(* (Scale = 10^4, the resolution of toFixed(4)); 0.05 is 500.  Arithmetic  *)
(* is exact, so a result agrees with the IEEE double computation wherever  *)
(* the double computation is exact or is not within one ulp of a rounding  *)
(* tie.  Pixel counts are plain integers.                                  *)
(*                                                                         *)
(* JavaScript values.  A scalar is a record [t, v, s]: t the type tag      *)
(* ("number", "NaN", "undefined", "null", "string"), v the numeric value   *)
(* and s the text of a string.  NaN has its own tag although typeof NaN is *)
(* "number" (see TypeOf).                                                  *)
(***************************************************************************)
EXTENDS Integers, Sequences, FiniteSets, TLC

\* toFixed(4): four decimal places, i.e. units of 1/10000.
Scale == 10000

\* The input grid for crop fields runs from -1/2 to GridMax/2.
GridMax == 3

\* Image sides run over 1..MaxDim.
MaxDim == 4

\* The keywords arrays of a model answer have 0..MaxKwInput entries.
MaxKwInput == 13

\* The limits validateAIResponse enforces.
MinTitleLen == 15
MinDescLen == 250
MaxDescLen == 850
MinKeywords == 3
MaxKeywords == 12

\* The crop fields of an upload request run over the quarters from -1/4 to
\* PixelGridMax/4.
PixelGridMax == 5
MaxContent == 2
MaxRequests == 2

(***************************************************************************)
(* JavaScript scalars                                                      *)
(***************************************************************************)
Num(n) == [t |-> "number", v |-> n, s |-> ""]
NaN == [t |-> "NaN", v |-> 0, s |-> ""]
Undefined == [t |-> "undefined", v |-> 0, s |-> ""]
Null == [t |-> "null", v |-> 0, s |-> ""]
Str(text) == [t |-> "string", v |-> 0, s |-> text]

\* typeof a
TypeOf(a) ==
  CASE a.t = "NaN" -> "number"
    [] a.t = "null" -> "object"
    [] OTHER -> a.t

\* ToNumber, as the relational operators and / apply it.  The strings of the
\* model are all non-numeric text, which converts to NaN.
ToNumber(a) ==
  CASE a.t = "number" -> a
    [] a.t = "null" -> Num(0)
    [] OTHER -> NaN

\* a >= b, a <= b, a > b : false as soon as one side converts to NaN.
JsGe(a, b) ==
  LET p == ToNumber(a)
      q == ToNumber(b)
  IN  p.t = "number" /\ q.t = "number" /\ p.v >= q.v

JsLe(a, b) ==
  LET p == ToNumber(a)
      q == ToNumber(b)
  IN  p.t = "number" /\ q.t = "number" /\ p.v <= q.v

JsGt(a, b) ==
  LET p == ToNumber(a)
      q == ToNumber(b)
  IN  p.t = "number" /\ q.t = "number" /\ p.v > q.v

\* a + b : string concatenation when one side is a string (the result is
\* again non-numeric text), numeric addition otherwise.
JsAdd(a, b) ==
  IF a.t = "string" \/ b.t = "string"
  THEN Str("text")
  ELSE LET p == ToNumber(a)
           q == ToNumber(b)
       IN  IF p.t = "number" /\ q.t = "number" THEN Num(p.v + q.v) ELSE NaN

\* Math.max(a, b) and Math.min(a, b): NaN when one argument converts to NaN.
MathMax(a, b) ==
  LET p == ToNumber(a)
      q == ToNumber(b)
  IN  IF p.t = "number" /\ q.t = "number"
      THEN (IF p.v >= q.v THEN p ELSE q)
      ELSE NaN

MathMin(a, b) ==
  LET p == ToNumber(a)
      q == ToNumber(b)
  IN  IF p.t = "number" /\ q.t = "number"
      THEN (IF p.v <= q.v THEN p ELSE q)
      ELSE NaN

\* num/den rounded to the nearest integer, ties away from zero (den > 0):
\* the rounding of Number.prototype.toFixed, which rounds the magnitude and
\* takes the larger candidate on a tie.
RoundMagnitude(num, den) ==
  (num \div den) + (IF 2 * (num % den) >= den THEN 1 ELSE 0)

RoundHalfAway(num, den) ==
  IF num >= 0 THEN RoundMagnitude(num, den) ELSE -RoundMagnitude(-num, den)

\* Number((a / b).toFixed(4)).  b is maxX or maxY, which is >= 1 when it is
\* a number at all.
DivToFixed4(a, b) ==
  LET p == ToNumber(a)
      q == ToNumber(b)
  IN  IF p.t = "number" /\ q.t = "number"
      THEN Num(RoundHalfAway(p.v * Scale, q.v))
      ELSE NaN

(***************************************************************************)
(* Crop values                                                             *)
(***************************************************************************)
\* A crop object { x, y, width, height }.
Rect(x, y, width, height) ==
  [t |-> "object", x |-> x, y |-> y, width |-> width, height |-> height]

\* A crop that is no object: undefined, null, or a primitive such as a
\* string.  Reading a property of a primitive yields undefined.
NoRect(tag) ==
  [t |-> tag, x |-> Undefined, y |-> Undefined, width |-> Undefined,
   height |-> Undefined]

\* !crop : undefined and null are falsy; objects and the non-empty strings of
\* the model are truthy.
Falsy(crop) == crop.t \in {"undefined", "null"}

\* The square fallback of the later versions in the place of the default.
DefaultCropSquare == Rect(Num(1000), Num(1000), Num(8000), Num(8000))

\* The literal { x: 0.1, y: 0.05, width: 0.8, height: 0.9 }.
DefaultCrop == Rect(Num(1000), Num(500), Num(8000), Num(9000))

\* The upper bounds taken exclusive: the range test with < 1 for <= 1.
AlreadyValidBelowOne(crop) ==
  /\ JsGe(crop.x, Num(0)) /\ JsGt(Num(Scale), crop.x)
  /\ JsGe(crop.y, Num(0)) /\ JsGt(Num(Scale), crop.y)
  /\ JsGt(crop.width, Num(0)) /\ JsGt(Num(Scale), crop.width)
  /\ JsGt(crop.height, Num(0)) /\ JsGt(Num(Scale), crop.height)

\* The sizes tested like the origin: the range test with >= 0 for > 0.
AlreadyValidFromZero(crop) ==
  /\ JsGe(crop.x, Num(0)) /\ JsLe(crop.x, Num(Scale))
  /\ JsGe(crop.y, Num(0)) /\ JsLe(crop.y, Num(Scale))
  /\ JsGe(crop.width, Num(0)) /\ JsLe(crop.width, Num(Scale))
  /\ JsGe(crop.height, Num(0)) /\ JsLe(crop.height, Num(Scale))

\* The test both variants make before returning the crop as it is.
AlreadyValid(crop) ==
  /\ JsGe(crop.x, Num(0)) /\ JsLe(crop.x, Num(Scale))
  /\ JsGe(crop.y, Num(0)) /\ JsLe(crop.y, Num(Scale))
  /\ JsGt(crop.width, Num(0)) /\ JsLe(crop.width, Num(Scale))
  /\ JsGt(crop.height, Num(0)) /\ JsLe(crop.height, Num(Scale))

\* normalizeCrop, fixed-fallback variant.
normalizeCropStrict(crop) ==
  IF Falsy(crop) THEN DefaultCrop
  ELSE IF AlreadyValid(crop) THEN crop
  ELSE DefaultCrop

\* The rescale variant with an "already valid" test that also wants the
\* rectangle to end inside the image.
normalizeCropRescaleFitting(crop) ==
  LET maxX == MathMax(JsAdd(crop.x, crop.width), Num(Scale))
      maxY == MathMax(JsAdd(crop.y, crop.height), Num(Scale))
  IN  IF Falsy(crop) THEN DefaultCrop
      ELSE IF AlreadyValid(crop) /\ maxX = Num(Scale) /\ maxY = Num(Scale) THEN crop
      ELSE Rect(DivToFixed4(crop.x, maxX), DivToFixed4(crop.y, maxY),
                DivToFixed4(crop.width, maxX), DivToFixed4(crop.height, maxY))

\* normalizeCrop, rescale variant.
normalizeCropRescale(crop) ==
  IF Falsy(crop) THEN DefaultCrop
  ELSE IF AlreadyValid(crop) THEN crop
  ELSE LET maxX == MathMax(JsAdd(crop.x, crop.width), Num(Scale))
           maxY == MathMax(JsAdd(crop.y, crop.height), Num(Scale))
       IN  Rect(DivToFixed4(crop.x, maxX), DivToFixed4(crop.y, maxY),
                DivToFixed4(crop.width, maxX), DivToFixed4(crop.height, maxY))

normalizeCrop(policy, crop) ==
  IF policy = "strict" THEN normalizeCropStrict(crop)
  ELSE normalizeCropRescale(crop)

(***************************************************************************)
(* Module-level objects of index.js                                        *)
(***************************************************************************)
\* const FALLBACK_CROP = { x: 0.1, y: 0.1, width: 0.8, height: 0.8 }
FALLBACK_CROP == Rect(Num(1000), Num(1000), Num(8000), Num(8000))

\* const ALLOWED_BOARDS = [ ... ]
ALLOWED_BOARDS ==
  <<"Portugal Gift Ideas", "Portuguese Home Decor", "Lisbon Travel Gifts",
    "Azulejo Art">>

\* const binds the name, not the contents: the array and the object behind
\* the two names are state that every request of the process shares.
VARIABLES
  allowedBoards,  \* the array ALLOWED_BOARDS names, as it is now
  fallbackCrop    \* the object FALLBACK_CROP names, as it is now

shared == <<allowedBoards, fallbackCrop>>

SharedInit == allowedBoards = ALLOWED_BOARDS /\ fallbackCrop = FALLBACK_CROP

(***************************************************************************)
(* POST /api/upload: relative crop -> pixel rectangle                      *)
(***************************************************************************)

\* a * n for an integer n (an image side); the product keeps a's unit.
JsMul(a, n) ==
  LET p == ToNumber(a)
  IN  IF p.t = "number" THEN Num(p.v * n) ELSE NaN

\* a - b
JsSub(a, b) ==
  LET p == ToNumber(a)
      q == ToNumber(b)
  IN  IF p.t = "number" /\ q.t = "number" THEN Num(p.v - q.v) ELSE NaN

\* Math.floor in the place of Math.round.
MathFloor(a) ==
  IF a.t = "number" THEN Num(a.v \div Scale) ELSE NaN

\* Math.round of a fraction counted in 1/Scale: floor(a + 1/2), an integer.
MathRound(a) ==
  IF a.t = "number" THEN Num((2 * a.v + Scale) \div (2 * Scale)) ELSE NaN

\* The crop the upload handler works with: the parsed body when it is an
\* object whose x is a number and whose width is not <= 0, else (also when
\* JSON.parse or the property access throws) FALLBACK_CROP.
parseUploadCrop(raw) ==
  IF raw.t # "object" THEN fallbackCrop
  ELSE IF TypeOf(raw.x) # "number" \/ JsLe(raw.width, Num(0)) THEN fallbackCrop
  ELSE raw

\* Width clamped against the whole side instead of the space right of x.
pixelCropNaive(crop, dims) ==
  LET x == MathMax(Num(0), MathMin(Num(dims.width - 1), MathRound(JsMul(crop.x, dims.width))))
      y == MathMax(Num(0), MathMin(Num(dims.height - 1), MathRound(JsMul(crop.y, dims.height))))
      w == MathMax(Num(1), MathMin(Num(dims.width), MathRound(JsMul(crop.width, dims.width))))
      h == MathMax(Num(1), MathMin(Num(dims.height), MathRound(JsMul(crop.height, dims.height))))
  IN  [x |-> x, y |-> y, w |-> w, h |-> h]

\* Width and height without the lower clamp Math.max(1, ...).
pixelCropNoFloor(crop, dims) ==
  LET x == MathMax(Num(0), MathMin(Num(dims.width - 1), MathRound(JsMul(crop.x, dims.width))))
      y == MathMax(Num(0), MathMin(Num(dims.height - 1), MathRound(JsMul(crop.y, dims.height))))
      w == MathMin(JsSub(Num(dims.width), x), MathRound(JsMul(crop.width, dims.width)))
      h == MathMin(JsSub(Num(dims.height), y), MathRound(JsMul(crop.height, dims.height)))
  IN  [x |-> x, y |-> y, w |-> w, h |-> h]

\* let x = Math.max(0, Math.min(dims.width - 1, Math.round(crop.x * dims.width)));
\* let y = ... ; let w = Math.max(1, Math.min(dims.width - x, ...)); let h = ...
pixelCrop(crop, dims) ==
  LET x == MathMax(Num(0), MathMin(Num(dims.width - 1), MathRound(JsMul(crop.x, dims.width))))
      y == MathMax(Num(0), MathMin(Num(dims.height - 1), MathRound(JsMul(crop.y, dims.height))))
      w == MathMax(Num(1), MathMin(JsSub(Num(dims.width), x), MathRound(JsMul(crop.width, dims.width))))
      h == MathMax(Num(1), MathMin(JsSub(Num(dims.height), y), MathRound(JsMul(crop.height, dims.height))))
  IN  [x |-> x, y |-> y, w |-> w, h |-> h]

\* The v4.0 handler: try { crop = JSON.parse(req.body.crop) }
\* catch { crop = FALLBACK_CROP }, with no look at what was parsed.
parseUploadCrop4(raw) ==
  IF raw.t = "unparseable" THEN fallbackCrop ELSE raw

\* const x = Math.max(0, Math.round(crop.x * dims.width)); y likewise;
\* const w = Math.max(1, Math.round(crop.width * dims.width)); h likewise.
pixelCrop4(crop, dims) ==
  [x |-> MathMax(Num(0), MathRound(JsMul(crop.x, dims.width))),
   y |-> MathMax(Num(0), MathRound(JsMul(crop.y, dims.height))),
   w |-> MathMax(Num(1), MathRound(JsMul(crop.width, dims.width))),
   h |-> MathMax(Num(1), MathRound(JsMul(crop.height, dims.height)))]

(***************************************************************************)
(* validateAIResponse                                                      *)
(***************************************************************************)
\* A keywords value: an array of scalars, or a scalar that is no array.
Arr(items) == [t |-> "array", a |-> items]
NoArr(tag) == [t |-> tag, a |-> << >>]

\* Array.isArray(k) and k.length
IsArray(k) == k.t = "array"
Length(k) == Len(k.a)

\* ALLOWED_BOARDS.includes(b): strict equality with one of the entries.
Includes(list, b) ==
  b.t = "string" /\ \E i \in 1 .. Len(list) : list[i] = b.s

\* typeof data.pinterest_title !== "string" || data.pinterest_title.length < 15
titleInvalid(data) ==
  TypeOf(data.pinterest_title) # "string"
    \/ Len(data.pinterest_title.s) < MinTitleLen

\* typeof data.pinterest_description !== "string" || length < 250 || length > 850
descriptionInvalidNoMax(data) ==
  TypeOf(data.pinterest_description) # "string"
    \/ Len(data.pinterest_description.s) < MinDescLen

descriptionInvalid(data) ==
  TypeOf(data.pinterest_description) # "string"
    \/ Len(data.pinterest_description.s) < MinDescLen
    \/ Len(data.pinterest_description.s) > MaxDescLen

\* !Array.isArray(data.keywords) || length < 3 || length > 12
keywordsInvalidOffByOne(data) ==
  ~IsArray(data.keywords)
    \/ Length(data.keywords) <= MinKeywords
    \/ Length(data.keywords) > MaxKeywords

keywordsInvalid(data) ==
  ~IsArray(data.keywords)
    \/ Length(data.keywords) < MinKeywords
    \/ Length(data.keywords) > MaxKeywords

\* if (!ALLOWED_BOARDS.includes(data.board)) data.board = ALLOWED_BOARDS[0];
repairBoardLast(data) ==
  IF ~Includes(allowedBoards, data.board)
  THEN [data EXCEPT !.board = Str(allowedBoards[Len(allowedBoards)])]
  ELSE data

repairBoard(data) ==
  IF ~Includes(allowedBoards, data.board)
  THEN [data EXCEPT !.board = Str(allowedBoards[1])]
  ELSE data

\* if (!data.crop || typeof data.crop.x !== "number") data.crop = FALLBACK_CROP;
repairCropAlways(data) == [data EXCEPT !.crop = fallbackCrop]

repairCrop(data) ==
  IF Falsy(data.crop) \/ TypeOf(data.crop.x) # "number"
  THEN [data EXCEPT !.crop = fallbackCrop]
  ELSE data

\* ALLOWED_BOARDS and FALLBACK_CROP after validateAIResponse(data): the call
\* reads ALLOWED_BOARDS[0] and FALLBACK_CROP and assigns to neither.
\* (First, the variant that takes the first board with shift().)
sharedAfterValidateShift(boards, fallback, data) ==
  IF \/ titleInvalid(data) \/ descriptionInvalid(data) \/ keywordsInvalid(data)
     \/ Includes(boards, data.board)
  THEN <<boards, fallback>>
  ELSE <<Tail(boards), fallback>>

\* (And the variant whose repair also appends the unknown board.)
sharedAfterValidatePush(boards, fallback, data) ==
  IF \/ titleInvalid(data) \/ descriptionInvalid(data) \/ keywordsInvalid(data)
     \/ Includes(boards, data.board) \/ data.board.t # "string"
  THEN <<boards, fallback>>
  ELSE <<Append(boards, data.board.s), fallback>>

sharedAfterValidate(boards, fallback, data) == <<boards, fallback>>

\* The two repairs done first and the three checks after them.
validateRepairFirst(data) ==
  LET repaired == repairCrop(repairBoard(data))
  IN  IF titleInvalid(data)
      THEN [threw |-> TRUE, message |-> "Invalid title from AI", data |-> repaired, value |-> repaired]
      ELSE IF descriptionInvalid(data)
      THEN [threw |-> TRUE, message |-> "Invalid description length", data |-> repaired, value |-> repaired]
      ELSE IF keywordsInvalid(data)
      THEN [threw |-> TRUE, message |-> "Invalid keywords array", data |-> repaired, value |-> repaired]
      ELSE [threw |-> FALSE, message |-> "", data |-> repaired, value |-> repaired]

\* validateAIResponse(data): the three throws in order, then the two
\* assignments to data, then return data.  `data` is the argument object as
\* the call leaves it; `value` is what is returned.
validateAIResponse(data) ==
  IF titleInvalid(data)
  THEN [threw |-> TRUE, message |-> "Invalid title from AI", data |-> data, value |-> data]
  ELSE IF descriptionInvalid(data)
  THEN [threw |-> TRUE, message |-> "Invalid description length", data |-> data, value |-> data]
  ELSE IF keywordsInvalid(data)
  THEN [threw |-> TRUE, message |-> "Invalid keywords array", data |-> data, value |-> data]
  ELSE LET repaired == repairCrop(repairBoard(data))
       IN  [threw |-> FALSE, message |-> "", data |-> repaired, value |-> repaired]

(***************************************************************************)
(* Inputs                                                                  *)
(***************************************************************************)
\* Numeric crop fields: a grid of halves from -0.5 upward, the smallest
\* positive 4-decimal value, and 15.5 (a pixel-like value; 0.5/16 and
\* 15.5/16 are exact doubles that are rounding ties at 4 decimals).
CropNums == {i * (Scale \div 2) : i \in -1 .. GridMax} \cup {1, 155000}

CropFields == {Num(n) : n \in CropNums} \cup {Undefined, Null, Str("abc")}

CropInputs ==
  {Rect(x, y, w, h) : x \in CropFields, y \in CropFields,
                      w \in CropFields, h \in CropFields}
  \cup {NoRect("undefined"), NoRect("null"), NoRect("string")}

Policies == {"strict", "rescale"}

\* What imageSize reports for an image the handler goes on with.
Dims == [width : 1 .. MaxDim, height : 1 .. MaxDim]

\* req.body.crop after JSON.parse: an object, null, a string, or no value at
\* all because the text did not parse.
UploadNums == {i * (Scale \div 4) : i \in -1 .. PixelGridMax}

UploadFields == {Num(n) : n \in UploadNums} \cup {Undefined, Str("abc")}

UploadBodies ==
  {Rect(x, y, w, h) : x \in UploadFields, y \in UploadFields,
                      w \in UploadFields, h \in UploadFields}
  \cup {NoRect("unparseable"), NoRect("null"), NoRect("string")}

NoPixels == [x |-> Undefined, y |-> Undefined, w |-> Undefined, h |-> Undefined]

\* Text of n characters.
RECURSIVE Rep(_)
Rep(n) ==
  IF n = 0 THEN ""
  ELSE LET half == Rep(n \div 2)
       IN  IF n % 2 = 0 THEN half \o half ELSE half \o half \o "a"

\* The fields of a parsed model answer.
TitleInputs ==
  {Undefined, Num(7)}
  \cup {Str(Rep(n)) : n \in {0, MinTitleLen - 1, MinTitleLen, MinTitleLen + 1}}

DescriptionInputs ==
  {Undefined}
  \cup {Str(Rep(n)) : n \in {MinDescLen - 1, MinDescLen, MaxDescLen, MaxDescLen + 1}}

\* n keywords; with `odd`, the first one is a number instead of a string.
Keywords(n, odd) ==
  Arr([i \in 1 .. n |-> IF odd /\ i = 1 THEN Num(7) ELSE Str("azulejo tile")])

KeywordsInputs ==
  {NoArr("undefined"), NoArr("string")}
  \cup {Keywords(n, FALSE) : n \in 0 .. MaxKwInput}
  \cup {Keywords(n, TRUE) : n \in {MinKeywords - 1, MinKeywords, MaxKeywords}}

BoardInputs ==
  {Str(ALLOWED_BOARDS[i]) : i \in 1 .. Len(ALLOWED_BOARDS)}
  \cup {Str("Nonexistent Board"), Undefined, Num(7)}

ValidateCropInputs ==
  {NoRect("undefined"), NoRect("null"), NoRect("string"),
   Rect(Num(1000), Num(500), Num(8000), Num(9000)),
   Rect(Num(0), Num(Scale), Num(1), Num(Scale)),
   Rect(Undefined, Num(500), Num(8000), Num(9000)),
   Rect(Str("abc"), Num(500), Num(8000), Num(9000)),
   Rect(Num(1000), Undefined, Num(8000), Num(9000)),
   Rect(Num(1000), Num(500), Str("abc"), Null),
   Rect(Num(15000), Num(500), Num(8000), Num(9000)),
   Rect(Num(1000), Num(-500), Num(8000), Num(9000)),
   Rect(Num(1000), Num(500), Num(0), Num(20000))}

Record(title, description, keywords, board, crop) ==
  [pinterest_title |-> title, pinterest_description |-> description,
   keywords |-> keywords, board |-> board, crop |-> crop]

ParsedInputs ==
  {Record(t, d, k, b, c) : t \in TitleInputs, d \in DescriptionInputs,
                           k \in KeywordsInputs, b \in BoardInputs,
                           c \in ValidateCropInputs}

NoRecord ==
  Record(Undefined, Undefined, NoArr("undefined"), Undefined, NoRect("undefined"))

(***************************************************************************)
(* The model's text in the analyze handlers of unnamed/part_000, part_001  *)
(* and part_002: trim, fence removal, JSON.parse                           *)
(***************************************************************************)
\* A text is a sequence of tokens, each standing for the characters in its
\* name (FENCE for three backticks); the tokens are chosen so that no match
\* of /```json|```/, no whitespace run and no JSON delimiter straddles two
\* of them.
FENCE == "fence"
NL == "\n"
OPEN == "{\"board\":\""
CLOSE == "\"}"

\* What may stand between OPEN and CLOSE: characters of a JSON string.
StringTokens == {"x", FENCE, "json", "js", "null", "not"}

Text(toks) == [t |-> "string", toks |-> toks]
NoText == [t |-> "undefined", toks |-> << >>]

RECURSIVE TrimStart(_)
TrimStart(toks) ==
  IF toks # << >> /\ Head(toks) = NL THEN TrimStart(Tail(toks)) ELSE toks

RECURSIVE TrimEnd(_)
TrimEnd(toks) ==
  IF toks # << >> /\ toks[Len(toks)] = NL
  THEN TrimEnd(SubSeq(toks, 1, Len(toks) - 1))
  ELSE toks

\* String.prototype.trim
Trim(toks) == TrimEnd(TrimStart(toks))

\* text.startsWith("```")
StartsWithFence(toks) == toks # << >> /\ Head(toks) = FENCE

\* text.replace(/```json|```/g, ""): left to right, every ``` goes, together
\* with a json that follows it at once.
RECURSIVE ReplaceFences(_)
ReplaceFences(toks) ==
  IF toks = << >> THEN << >>
  ELSE IF Head(toks) = FENCE
       THEN IF Len(toks) >= 2 /\ toks[2] = "json"
            THEN ReplaceFences(Tail(Tail(toks)))
            ELSE ReplaceFences(Tail(toks))
  ELSE <<Head(toks)>> \o ReplaceFences(Tail(toks))

\* The values JSON.parse can return here: the object { board: <string> },
\* null, or none when it throws.
ParsedObject(board) == [t |-> "object", board |-> board, crop |-> NoRect("undefined")]
ParsedNull == [t |-> "null", board |-> << >>, crop |-> NoRect("null")]
NoParsed == [t |-> "none", board |-> << >>, crop |-> NoRect("undefined")]

\* JSON.parse(text): whitespace around the value is skipped; the value is
\* null, or OPEN, string characters, CLOSE; anything else is a SyntaxError.
JsonParse(toks) ==
  LET body == Trim(toks)
      n == Len(body)
  IN  IF body = <<"null">> THEN [ok |-> TRUE, value |-> ParsedNull]
      ELSE IF /\ n >= 2 /\ body[1] = OPEN /\ body[n] = CLOSE
              /\ \A i \in 2 .. n - 1 : body[i] \in StringTokens
           THEN [ok |-> TRUE, value |-> ParsedObject(SubSeq(body, 2, n - 1))]
      ELSE [ok |-> FALSE, value |-> NoParsed]

\* res.status(n).json({ error, raw }) and res.json(record)
ErrorResponse(status, error, raw) ==
  [status |-> status, error |-> error, raw |-> raw, record |-> NoParsed]
RecordResponse(record) ==
  [status |-> 200, error |-> "", raw |-> << >>, record |-> record]

\* The outer catch: res.status(500).json({ error: "AI analysis failed" })
analysisFailed == ErrorResponse(500, "AI analysis failed", << >>)

\* The inner catch sending its error without status(500).
invalidJsonNoStatus(variant, clean) ==
  [ErrorResponse(500, "Invalid JSON from AI", << >>) EXCEPT !.status = 200]

\* The inner catch: res.status(500).json({ error: "Invalid JSON from AI" }),
\* in part_001 with raw: text.substring(0, 500) (the texts here are shorter).
invalidJson(variant, clean) ==
  ErrorResponse(500, "Invalid JSON from AI",
                IF variant = "part_001" THEN clean ELSE << >>)

Outcome(clean, parsed, normalized, responses) ==
  [clean |-> clean, parsed |-> parsed, normalized |-> normalized,
   responses |-> responses]

\* part_000 and part_001 from the model's reply on: trim (a missing text
\* throws in both), the empty-text throw, fences removed when the text
\* starts with one, JSON.parse in its own try, normalizeCrop, res.json.
analyzeGuarded(variant, text) ==
  IF text.t # "string" \/ Trim(text.toks) = << >>
  THEN Outcome(<< >>, [ok |-> FALSE, value |-> NoParsed], FALSE, <<analysisFailed>>)
  ELSE
    LET trimmed == Trim(text.toks)
        clean == IF StartsWithFence(trimmed) THEN Trim(ReplaceFences(trimmed))
                 ELSE trimmed
        p == JsonParse(clean)
    IN  IF ~p.ok THEN Outcome(clean, p, FALSE, <<invalidJson(variant, clean)>>)
        ELSE IF p.value.t = "null"
             THEN Outcome(clean, p, FALSE, <<analysisFailed>>)
        ELSE Outcome(clean, p, TRUE,
               <<RecordResponse([p.value EXCEPT
                   !.crop = normalizeCrop("rescale", p.value.crop)])>>)

\* part_002 from the model's reply on: a missing or empty text is answered
\* at once, fences are removed wherever they are, then trim, JSON.parse in
\* its own try, res.json(parsed) with no normalizeCrop.
analyzeUnguarded(variant, text) ==
  IF text.t # "string" \/ text.toks = << >>
  THEN Outcome(<< >>, [ok |-> FALSE, value |-> NoParsed], FALSE,
               <<ErrorResponse(500, "Empty AI response", << >>)>>)
  ELSE
    LET clean == Trim(ReplaceFences(text.toks))
        p == JsonParse(clean)
    IN  IF ~p.ok THEN Outcome(clean, p, FALSE, <<invalidJson(variant, clean)>>)
        ELSE Outcome(clean, p, FALSE, <<RecordResponse(p.value)>>)

Variants == {"part_000", "part_001", "part_002"}

analyzeReply(variant, text) ==
  IF variant = "part_002" THEN analyzeUnguarded(variant, text)
  ELSE analyzeGuarded(variant, text)

\* The strings of at most n tokens the model may put into the board.
RECURSIVE Strings(_)
Strings(n) ==
  IF n = 0 THEN {<< >>}
  ELSE LET shorter == Strings(n - 1)
       IN  shorter \cup {<<c>> \o str : c \in {"x", FENCE, "json"}, str \in shorter}

\* What the model writes as its answer: nothing, prose, null, an object cut
\* short, or the JSON text of an object.
Payloads ==
  {<< >>, <<"not">>, <<"null">>, <<OPEN, "x">>}
  \cup {<<OPEN>> \o str \o <<CLOSE>> : str \in Strings(MaxContent)}

\* ... and how it wraps the answer: whitespace, an opening fence with or
\* without a language tag, a closing fence.
PartsInputs ==
  [lead : {<< >>, <<NL>>},
   open : {<< >>, <<FENCE>>, <<FENCE, "json">>, <<FENCE, "js">>},
   sep : {<< >>, <<NL>>},
   payload : Payloads,
   close : {<< >>, <<FENCE>>, <<NL, FENCE>>},
   trail : {<< >>, <<NL>>}]

Join(parts) ==
  parts.lead \o parts.open \o parts.sep \o parts.payload \o parts.close \o parts.trail

(***************************************************************************)
(* POST /api/analyze of index.js (v3.7.1): JSON.parse, validateAIResponse  *)
(***************************************************************************)
\* response.choices[0].message.content: a text that is no JSON (prose, or
\* JSON inside fences, which this handler does not remove), the JSON text
\* null, or the JSON text of an object.
Content(kind, value) == [kind |-> kind, value |-> value]

\* JSON.parse(content): a SyntaxError, or the value the text denotes.
JSONparse(content) ==
  IF content.kind = "not json"
  THEN [threw |-> TRUE, message |-> "SyntaxError", kind |-> "none", value |-> NoRecord]
  ELSE [threw |-> FALSE, message |-> "", kind |-> content.kind, value |-> content.value]

\* res.status(n).json({ error }) and res.json(validated)
AnError(status, error) == [status |-> status, error |-> error, record |-> NoRecord]
AnRecord(record) == [status |-> 200, error |-> "", record |-> record]
NoResponse == [status |-> 0, error |-> "", record |-> NoRecord]

\* The catch sending err.message to the caller.
aiErrorDetailed(message) == AnError(500, message)

\* catch (err) { console.error(..., err.message);
\*               res.status(500).json({ error: "AI analysis failed" }) }
aiError(message) == AnError(500, "AI analysis failed")

\* The handler sending parsed as it is.
analyzeContentUnvalidated(content) ==
  LET p == JSONparse(content)
  IN  IF p.threw THEN [resp |-> aiError(p.message), log |-> p.message, validated |-> FALSE]
      ELSE [resp |-> AnRecord(p.value), log |-> "", validated |-> FALSE]

\* const parsed = JSON.parse(...); const validated = validateAIResponse(parsed);
\* res.json(validated); every throw lands in the catch.  validateAIResponse
\* of null throws a TypeError at data.pinterest_title.
analyzeContent(content) ==
  LET p == JSONparse(content)
  IN  IF p.threw THEN [resp |-> aiError(p.message), log |-> p.message, validated |-> FALSE]
      ELSE IF p.kind = "json null"
           THEN [resp |-> aiError("TypeError"), log |-> "TypeError", validated |-> FALSE]
      ELSE LET r == validateAIResponse(p.value)
           IN  IF r.threw
               THEN [resp |-> aiError(r.message), log |-> r.message, validated |-> TRUE]
               ELSE [resp |-> AnRecord(r.value), log |-> "", validated |-> TRUE]

\* What the model may answer one request.
AnalyzeRecords ==
  LET title == Str(Rep(MinTitleLen))
      desc == Str(Rep(MinDescLen))
      crop == Rect(Num(1000), Num(500), Num(8000), Num(9000))
  IN  {Record(title, desc, Keywords(MinKeywords, FALSE), Str("Azulejo Art"), crop),
       Record(title, desc, Keywords(MaxKeywords, FALSE), Str("Portugal Gift Ideas"), crop),
       Record(title, desc, Keywords(MinKeywords, FALSE), Str("Nonexistent Board"), crop),
       Record(title, desc, Keywords(MinKeywords, FALSE), Undefined, NoRect("null")),
       Record(title, desc, Keywords(MinKeywords, FALSE), Str("Azulejo Art"),
              Rect(Str("abc"), Num(500), Num(8000), Num(9000))),
       Record(Str(Rep(MinTitleLen - 1)), desc, Keywords(MinKeywords, FALSE),
              Str("Azulejo Art"), crop),
       Record(title, Str(Rep(MaxDescLen + 1)), Keywords(MinKeywords, FALSE),
              Str("Nonexistent Board"), crop),
       Record(title, desc, Keywords(MinKeywords - 1, FALSE), Str("Azulejo Art"),
              NoRect("undefined")),
       Record(title, desc, NoArr("string"), Str("Azulejo Art"), crop)}

AnalyzeContents ==
  {Content("not json", NoRecord), Content("json null", NoRecord)}
  \cup {Content("json object", r) : r \in AnalyzeRecords}

NoContent == Content("none", NoRecord)

Requests == 1 .. MaxRequests

(***************************************************************************)
(* Control flow of the analyze handlers: checks, model call, responses     *)
(***************************************************************************)
HandlerVariants == Variants \cup {"index.ts", "v3.7.1", "v4.0"}

Files == {"none", "text/plain", "image/png"}

\* The model's reply as each handler reads it: a text for part_000,
\* part_001 and part_002, a content for the others.
Reply(text, content) == [text |-> text, content |-> content]
NoReply == Reply(NoText, NoContent)

ReplyInputs(variant) ==
  IF variant \in Variants
  THEN {Reply(t, NoContent) :
          t \in {NoText, Text(<< >>), Text(<<"not">>), Text(<<"null">>),
                 Text(<<OPEN, "x", CLOSE>>),
                 Text(<<FENCE, "json", NL, OPEN, "x", CLOSE, NL, FENCE>>)}}
  ELSE {Reply(NoText, c) : c \in AnalyzeContents \cup {Content("missing", NoRecord)}}

\* The checks without the return behind res.status(400).json(...).
prefixNoReturn(variant, file, key) ==
  IF variant = "part_002" /\ ~key THEN [sent |-> <<500>>, call |-> FALSE]
  ELSE IF file = "none" THEN [sent |-> <<400>>, call |-> TRUE]
  ELSE IF variant = "part_001" /\ ~key THEN [sent |-> <<500>>, call |-> FALSE]
  ELSE IF variant \in {"v3.7.1", "v4.0"} /\ file # "image/png"
       THEN [sent |-> <<400>>, call |-> TRUE]
  ELSE [sent |-> << >>, call |-> TRUE]

\* The checks without the one of the MIME type.
prefixNoMimeCheck(variant, file, key) ==
  IF variant = "part_002" /\ ~key THEN [sent |-> <<500>>, call |-> FALSE]
  ELSE IF file = "none" THEN [sent |-> <<400>>, call |-> FALSE]
  ELSE IF variant = "part_001" /\ ~key THEN [sent |-> <<500>>, call |-> FALSE]
  ELSE [sent |-> << >>, call |-> TRUE]

\* The handler up to the await: part_002 tests the API key and then the
\* file, part_001 the file and then the key, v3.7.1 and v4.0 the file and
\* then its MIME type, part_000 and index.ts the file alone.  Each failed
\* test sends its response and returns.
prefix(variant, file, key) ==
  IF variant = "part_002" /\ ~key THEN [sent |-> <<500>>, call |-> FALSE]
  ELSE IF file = "none" THEN [sent |-> <<400>>, call |-> FALSE]
  ELSE IF variant = "part_001" /\ ~key THEN [sent |-> <<500>>, call |-> FALSE]
  ELSE IF variant \in {"v3.7.1", "v4.0"} /\ file # "image/png"
       THEN [sent |-> <<400>>, call |-> FALSE]
  ELSE [sent |-> << >>, call |-> TRUE]

\* index.ts: if (!content) throw ...; return res.json(JSON.parse(content));
\* catch: res.status(500).json({ error: err.message || ... })
analyzeTs(content) ==
  IF content.kind = "missing" \/ JSONparse(content).threw THEN <<500>> ELSE <<200>>

\* v4.0: JSON.parse, board and crop repaired in place, res.json(data);
\* JSON.parse(null) is null, and data.board of null throws.
analyzeV4(content) ==
  IF content.kind \in {"missing", "json null"} \/ JSONparse(content).threw
  THEN <<500>> ELSE <<200>>

\* The statuses the handler sends from the model's reply on.
replyStatuses(variant, reply) ==
  IF variant \in Variants
  THEN LET responses == analyzeReply(variant, reply.text).responses
       IN  [i \in 1 .. Len(responses) |-> responses[i].status]
  ELSE IF variant = "v3.7.1" /\ reply.content.kind = "missing"
       THEN <<analyzeContent(Content("json null", NoRecord)).resp.status>>
  ELSE IF variant = "v3.7.1" THEN <<analyzeContent(reply.content).resp.status>>
  ELSE IF variant = "index.ts" THEN analyzeTs(reply.content)
  ELSE analyzeV4(reply.content)

\* A handler that asks the model again when the reply was of no use.
afterReplyRetry(variant, reply) ==
  IF replyStatuses(variant, reply) = <<200>>
  THEN [sent |-> <<200>>, again |-> FALSE]
  ELSE [sent |-> << >>, again |-> TRUE]

\* What the handlers do with a reply: answer, and never call again.
afterReply(variant, reply) ==
  [sent |-> replyStatuses(variant, reply), again |-> FALSE]

(***************************************************************************)
(* State                                                                   *)
(***************************************************************************)
VARIABLES
  ncCrop,    \* parsed.crop as the model returned it
  ncPolicy,  \* which normalizeCrop variant the deployment has
  ncOut,     \* normalizeCrop(parsed.crop)
  ncOut2,    \* normalizeCrop applied to ncOut
  ncPc,      \* "parsed", "normalized", "renormalized"
  upDims,    \* dims of the uploaded image
  upBody,    \* JSON.parse(req.body.crop)
  upCrop,    \* crop, once chosen between the body's and the fallback
  upPx,      \* x, y, w, h of the transformation
  upPc,      \* "received", "cropped", "computed"
  vaAnswer,  \* the object the model's JSON text denotes
  vaParsed,  \* parsed: the object JSON.parse returned, as it is now
  vaResult,  \* outcome of validateAIResponse(parsed)
  vaPc,      \* "parsed", "validated", "failed"
  paVariant, \* which analyze handler the deployment has
  paParts,   \* how the model's text is put together
  paText,    \* response.output_text / response.choices[0].message.content
  paOut,     \* the handler's text, parse result and responses once it ran
  paPc,      \* "awaiting", "sent"
  anPc,      \* per request: "idle", "awaiting", "done"
  anFile,    \* per request: req.file ("none", or its mimetype)
  anContent, \* per request: the content of the model's reply
  anResp,    \* per request: the response sent
  anLog,     \* per request: what console.error printed of err.message
  hdVariant, \* which analyze handler runs the request
  hdFile,    \* req.file ("none", or its mimetype)
  hdKey,     \* whether OPENAI_API_KEY is set
  hdReply,   \* the model's reply, once there
  hdCalls,   \* how often the model was called for the request
  hdSent,    \* the statuses of the responses sent, in order
  hdPc,      \* "received", "awaiting", "done"
  piPc,      \* per Pinterest request: "idle", "awaiting", "done"
  piEndpoint, \* per Pinterest request: the route
  piCred,    \* per Pinterest request: the token, refresh_token or code
  piCalls,   \* per Pinterest request: calls made to api.pinterest.com
  piSent     \* per Pinterest request: statuses of the responses sent

vaVars == <<vaAnswer, vaParsed, vaResult, vaPc>>
ncVars == <<ncCrop, ncPolicy, ncOut, ncOut2, ncPc>>
upVars == <<upDims, upBody, upCrop, upPx, upPc>>
paVars == <<paVariant, paParts, paText, paOut, paPc>>
anVars == <<anPc, anFile, anContent, anResp, anLog>>
hdVars == <<hdVariant, hdFile, hdKey, hdReply, hdCalls, hdSent, hdPc>>
piVars == <<piPc, piEndpoint, piCred, piCalls, piSent>>
vars == <<ncVars, upVars, vaVars, paVars, anVars, hdVars, piVars, shared>>

\* The part of the state an endpoint that is not running leaves as it is.
NcIdle ==
  /\ ncCrop = NoRect("undefined") /\ ncPolicy = "strict"
  /\ ncOut = NoRect("undefined") /\ ncOut2 = NoRect("undefined")
  /\ ncPc = "idle"

NoResult == [threw |-> FALSE, message |-> "", value |-> NoRecord]

VaIdle ==
  /\ vaAnswer = NoRecord /\ vaParsed = NoRecord
  /\ vaResult = NoResult /\ vaPc = "idle"

UpIdle ==
  /\ upDims = [width |-> 1, height |-> 1] /\ upBody = NoRect("unparseable")
  /\ upCrop = NoRect("undefined") /\ upPx = NoPixels /\ upPc = "idle"

NoParts ==
  [lead |-> << >>, open |-> << >>, sep |-> << >>, payload |-> << >>,
   close |-> << >>, trail |-> << >>]

NoOutcome == Outcome(<< >>, [ok |-> FALSE, value |-> NoParsed], FALSE, << >>)

PaIdle ==
  /\ paVariant = "part_000" /\ paParts = NoParts /\ paText = NoText
  /\ paOut = NoOutcome /\ paPc = "idle"

HdIdle ==
  /\ hdVariant = "part_000" /\ hdFile = "none" /\ hdKey = TRUE
  /\ hdReply = NoReply /\ hdCalls = 0 /\ hdSent = << >> /\ hdPc = "idle"

PiIdle ==
  /\ piPc = [i \in Requests |-> "idle"]
  /\ piEndpoint = [i \in Requests |-> "boards"]
  /\ piCred = [i \in Requests |-> Undefined]
  /\ piCalls = [i \in Requests |-> 0]
  /\ piSent = [i \in Requests |-> << >>]

\* No analyze request has arrived.
AnIdle ==
  /\ anPc = [i \in Requests |-> "idle"]
  /\ anFile = [i \in Requests |-> "none"]
  /\ anContent = [i \in Requests |-> NoContent]
  /\ anResp = [i \in Requests |-> NoResponse]
  /\ anLog = [i \in Requests |-> ""]

(***************************************************************************)
(* normalizeCrop on the crop of a parsed model answer                      *)
(***************************************************************************)
CropInit ==
  /\ ncCrop \in CropInputs
  /\ ncPolicy \in Policies
  /\ ncOut = NoRect("undefined")
  /\ ncOut2 = NoRect("undefined")
  /\ ncPc = "parsed"
  /\ UpIdle /\ VaIdle /\ PaIdle /\ AnIdle /\ SharedInit
  /\ HdIdle /\ PiIdle

\* parsed.crop = normalizeCrop(parsed.crop)
Normalize ==
  /\ ncPc = "parsed"
  /\ ncOut' = normalizeCrop(ncPolicy, ncCrop)
  /\ ncPc' = "normalized"
  /\ UNCHANGED <<ncCrop, ncPolicy, ncOut2, upVars, vaVars, paVars, anVars, shared, hdVars, piVars>>

\* normalizeCrop applied to its own result
Renormalize ==
  /\ ncPc = "normalized"
  /\ ncOut2' = normalizeCrop(ncPolicy, ncOut)
  /\ ncPc' = "renormalized"
  /\ UNCHANGED <<ncCrop, ncPolicy, ncOut, upVars, vaVars, paVars, anVars, shared, hdVars, piVars>>

CropNext == Normalize \/ Renormalize

SpecCrop == CropInit /\ [][CropNext]_vars

(***************************************************************************)
(* POST /api/upload, from the crop parsing to the pixel rectangle          *)
(***************************************************************************)
UploadInit ==
  /\ upDims \in Dims
  /\ upBody \in UploadBodies
  /\ upCrop = NoRect("undefined")
  /\ upPx = NoPixels
  /\ upPc = "received"
  /\ NcIdle /\ VaIdle /\ PaIdle /\ AnIdle /\ SharedInit
  /\ HdIdle /\ PiIdle

\* try { const raw = JSON.parse(req.body.crop); ... crop = raw }
\* catch { crop = FALLBACK_CROP }
UploadParseCrop ==
  /\ upPc = "received"
  /\ upCrop' = parseUploadCrop(upBody)
  /\ upPc' = "cropped"
  /\ UNCHANGED <<upDims, upBody, upPx, ncVars, vaVars, paVars, anVars, shared, hdVars, piVars>>

\* The conversion on its own, applied to any rectangle of four numbers.
PixelInputs ==
  {Rect(Num(x), Num(y), Num(w), Num(h)) : x, y, w, h \in UploadNums}

PixelInit ==
  /\ upDims \in Dims
  /\ upCrop \in PixelInputs
  /\ upBody = upCrop
  /\ upPx = NoPixels
  /\ upPc = "cropped"
  /\ NcIdle /\ VaIdle /\ PaIdle /\ AnIdle /\ SharedInit
  /\ HdIdle /\ PiIdle

\* let x = ..., y = ..., w = ..., h = ...
UploadPixelCrop ==
  /\ upPc = "cropped"
  /\ upPx' = pixelCrop(upCrop, upDims)
  /\ upPc' = "computed"
  /\ UNCHANGED <<upDims, upBody, upCrop, ncVars, vaVars, paVars, anVars, shared, hdVars, piVars>>

UploadNext == UploadParseCrop \/ UploadPixelCrop

PixelNext == UploadPixelCrop

\* The v4.0 handler (index.js:375-420), from the crop parsing on.
Upload4ParseCrop ==
  /\ upPc = "received"
  /\ upCrop' = parseUploadCrop4(upBody)
  /\ upPc' = "cropped"
  /\ UNCHANGED <<upDims, upBody, upPx, ncVars, vaVars, paVars, anVars, shared, hdVars, piVars>>

\* crop.x of null throws: the outer catch answers 500 and nothing is sent
\* to the media service.
Upload4Throws ==
  /\ upPc = "cropped" /\ upCrop.t = "null"
  /\ upPc' = "failed"
  /\ UNCHANGED <<upDims, upBody, upCrop, upPx, ncVars, vaVars, paVars, anVars, shared, hdVars, piVars>>

\* Otherwise x, y, w, h are computed and go into the transformation.
Upload4PixelCrop ==
  /\ upPc = "cropped" /\ upCrop.t # "null"
  /\ upPx' = pixelCrop4(upCrop, upDims)
  /\ upPc' = "computed"
  /\ UNCHANGED <<upDims, upBody, upCrop, ncVars, vaVars, paVars, anVars, shared, hdVars, piVars>>

Upload4Next == Upload4ParseCrop \/ Upload4Throws \/ Upload4PixelCrop

SpecUpload4 == UploadInit /\ [][Upload4Next]_vars

SpecPixel == PixelInit /\ [][PixelNext]_vars

SpecUpload == UploadInit /\ [][UploadNext]_vars

(***************************************************************************)
(* POST /api/analyze (v3.7.1): validateAIResponse on the parsed answer     *)
(***************************************************************************)
(* POST /api/analyze of part_000, part_001, part_002, from the model's      *)
(* reply to the response                                                   *)
(***************************************************************************)
\* The request has passed the file and key checks and awaits the model; the
\* reply has a text put together from paParts, or none at all.
ParseInit ==
  /\ paVariant \in Variants
  /\ paParts \in PartsInputs
  /\ paText \in {Text(Join(paParts)), NoText}
  /\ paOut = NoOutcome
  /\ paPc = "awaiting"
  /\ NcIdle /\ UpIdle /\ VaIdle /\ AnIdle /\ SharedInit
  /\ HdIdle /\ PiIdle

\* The await returns and the handler runs to res.json(parsed) ...
AnalyzeSendsRecord ==
  /\ paPc = "awaiting"
  /\ LET out == analyzeReply(paVariant, paText)
     IN  /\ out.responses[Len(out.responses)].status = 200
         /\ paOut' = out
  /\ paPc' = "sent"
  /\ UNCHANGED <<paVariant, paParts, paText, ncVars, upVars, vaVars, anVars, shared, hdVars, piVars>>

\* ... or to one of its error responses.
AnalyzeSendsError ==
  /\ paPc = "awaiting"
  /\ LET out == analyzeReply(paVariant, paText)
     IN  /\ out.responses[Len(out.responses)].status # 200
         /\ paOut' = out
  /\ paPc' = "sent"
  /\ UNCHANGED <<paVariant, paParts, paText, ncVars, upVars, vaVars, anVars, shared, hdVars, piVars>>

ParseNext == AnalyzeSendsRecord \/ AnalyzeSendsError

SpecParse == ParseInit /\ [][ParseNext]_vars

(***************************************************************************)
(* One analyze request through any of the handlers                         *)
(***************************************************************************)
HandlerInit ==
  /\ hdVariant \in HandlerVariants
  /\ hdFile \in Files
  /\ hdKey \in BOOLEAN
  /\ hdReply = NoReply /\ hdCalls = 0 /\ hdSent = << >>
  /\ hdPc = "received"
  /\ NcIdle /\ UpIdle /\ VaIdle /\ PaIdle /\ AnIdle /\ PiIdle /\ SharedInit

\* From the start of the handler to a return or to the await of the call.
HandlerChecks ==
  /\ hdPc = "received"
  /\ LET p == prefix(hdVariant, hdFile, hdKey)
     IN  /\ hdSent' = p.sent
         /\ hdCalls' = IF p.call THEN hdCalls + 1 ELSE hdCalls
         /\ hdPc' = IF p.call THEN "awaiting" ELSE "done"
  /\ UNCHANGED <<hdVariant, hdFile, hdKey, hdReply,
                 ncVars, upVars, vaVars, paVars, anVars, piVars, shared>>

\* The await returns: the handler runs to its response.
HandlerModelReplies ==
  /\ hdPc = "awaiting"
  /\ \E r \in ReplyInputs(hdVariant) :
       LET o == afterReply(hdVariant, r)
       IN  /\ hdReply' = r
           /\ hdSent' = hdSent \o o.sent
           /\ hdCalls' = IF o.again THEN hdCalls + 1 ELSE hdCalls
           /\ hdPc' = IF o.again THEN "awaiting" ELSE "done"
  /\ UNCHANGED <<hdVariant, hdFile, hdKey,
                 ncVars, upVars, vaVars, paVars, anVars, piVars, shared>>

\* The await throws: the outer catch answers 500.
HandlerModelThrows ==
  /\ hdPc = "awaiting"
  /\ hdSent' = Append(hdSent, 500)
  /\ hdPc' = "done"
  /\ UNCHANGED <<hdVariant, hdFile, hdKey, hdReply, hdCalls,
                 ncVars, upVars, vaVars, paVars, anVars, piVars, shared>>

HandlerNext == HandlerChecks \/ HandlerModelReplies \/ HandlerModelThrows

SpecHandler == HandlerInit /\ [][HandlerNext]_vars

(***************************************************************************)
(* The Pinterest endpoints: callback, boards, pins, refresh                *)
(***************************************************************************)
Endpoints == {"callback", "boards", "pins", "refresh"}

\* !value of JavaScript.
IsFalsy(value) ==
  \/ value.t \in {"undefined", "null", "NaN"}
  \/ value.t = "string" /\ value.s = ""
  \/ value.t = "number" /\ value.v = 0

\* What each endpoint reads before anything else: req.query.code,
\* req.headers.authorization, req.body.refresh_token.  A header and a query
\* parameter are absent or a string; a field of a JSON body is any scalar.
\* req.body is the object express.json() leaves there.
CredentialInputs(endpoint) ==
  IF endpoint = "refresh"
  THEN {Undefined, Null, Str(""), Num(0), Str("tok")}
  ELSE {Undefined, Str(""), Str("tok")}

\* The response of the early return of each endpoint.
missingStatus(endpoint) ==
  IF endpoint \in {"boards", "pins"} THEN 401 ELSE 400

\* The endpoint without its first test.
pinterestGuardNoCheck(endpoint, cred) ==
  [sent |-> << >>, call |-> TRUE]

\* From the start of the handler to the early return or to the await of
\* the axios call.
pinterestGuard(endpoint, cred) ==
  IF IsFalsy(cred)
  THEN [sent |-> <<missingStatus(endpoint)>>, call |-> FALSE]
  ELSE [sent |-> << >>, call |-> TRUE]

\* What Pinterest answers: a body of the documented shape or another one.
UpstreamBodies == {"documented", "other"}

\* After the await: boards maps over response.data.items, which throws into
\* the catch when items is not an array; the others read one field of
\* response.data and answer 200 whatever it is.
pinterestAfter(endpoint, body) ==
  IF endpoint = "boards" /\ body = "other" THEN 500 ELSE 200

PinterestInit ==
  /\ PiIdle
  /\ NcIdle /\ UpIdle /\ VaIdle /\ PaIdle /\ AnIdle /\ HdIdle /\ SharedInit

\* A request arrives and runs to its early return or to the await.
PiReceive(i) ==
  /\ piPc[i] = "idle"
  /\ \E e \in Endpoints : \E c \in CredentialInputs(e) :
       LET g == pinterestGuard(e, c)
       IN  /\ piEndpoint' = [piEndpoint EXCEPT ![i] = e]
           /\ piCred' = [piCred EXCEPT ![i] = c]
           /\ piSent' = [piSent EXCEPT ![i] = g.sent]
           /\ piCalls' = [piCalls EXCEPT ![i] = IF g.call THEN @ + 1 ELSE @]
           /\ piPc' = [piPc EXCEPT ![i] = IF g.call THEN "awaiting" ELSE "done"]
  /\ UNCHANGED <<ncVars, upVars, vaVars, paVars, anVars, hdVars, shared>>

\* The axios call resolves: the handler runs to its response.
PiUpstreamReplies(i) ==
  /\ piPc[i] = "awaiting"
  /\ \E b \in UpstreamBodies :
       piSent' = [piSent EXCEPT ![i] = Append(@, pinterestAfter(piEndpoint[i], b))]
  /\ piPc' = [piPc EXCEPT ![i] = "done"]
  /\ UNCHANGED <<piEndpoint, piCred, piCalls,
                 ncVars, upVars, vaVars, paVars, anVars, hdVars, shared>>

\* The axios call rejects: the catch answers 500.
PiUpstreamFails(i) ==
  /\ piPc[i] = "awaiting"
  /\ piSent' = [piSent EXCEPT ![i] = Append(@, 500)]
  /\ piPc' = [piPc EXCEPT ![i] = "done"]
  /\ UNCHANGED <<piEndpoint, piCred, piCalls,
                 ncVars, upVars, vaVars, paVars, anVars, hdVars, shared>>

PinterestNext ==
  \E i \in Requests : PiReceive(i) \/ PiUpstreamReplies(i) \/ PiUpstreamFails(i)

SpecPinterest == PinterestInit /\ [][PinterestNext]_vars

(***************************************************************************)
(* POST /api/analyze of index.js (v3.7.1), any number of requests at once  *)
(***************************************************************************)
AnalyzeInit ==
  /\ AnIdle
  /\ NcIdle /\ UpIdle /\ VaIdle /\ PaIdle /\ SharedInit
  /\ HdIdle /\ PiIdle

\* if (!req.file) return 400; if (!mimetype.startsWith("image/")) return 400;
\* otherwise the handler runs up to the await of the model call.
Receive(i) ==
  /\ anPc[i] = "idle"
  /\ \E f \in {"none", "text/plain", "image/png"} :
       /\ anFile' = [anFile EXCEPT ![i] = f]
       /\ IF f = "none"
          THEN /\ anResp' = [anResp EXCEPT ![i] = AnError(400, "No image uploaded")]
               /\ anPc' = [anPc EXCEPT ![i] = "done"]
          ELSE IF f = "text/plain"
          THEN /\ anResp' = [anResp EXCEPT ![i] = AnError(400, "Images only")]
               /\ anPc' = [anPc EXCEPT ![i] = "done"]
          ELSE /\ anResp' = anResp
               /\ anPc' = [anPc EXCEPT ![i] = "awaiting"]
  /\ UNCHANGED <<anContent, anLog, ncVars, upVars, vaVars, paVars, shared, hdVars, piVars>>

\* The await returns with the model's reply; the rest of the handler runs
\* without giving up control: parse, validate, respond.
ModelReplies(i) ==
  /\ anPc[i] = "awaiting"
  /\ \E c \in AnalyzeContents :
       LET out == analyzeContent(c)
           after == IF out.validated
                    THEN sharedAfterValidate(allowedBoards, fallbackCrop, c.value)
                    ELSE <<allowedBoards, fallbackCrop>>
       IN  /\ anContent' = [anContent EXCEPT ![i] = c]
           /\ anResp' = [anResp EXCEPT ![i] = out.resp]
           /\ anLog' = [anLog EXCEPT ![i] = out.log]
           /\ allowedBoards' = after[1] /\ fallbackCrop' = after[2]
  /\ anPc' = [anPc EXCEPT ![i] = "done"]
  /\ UNCHANGED <<anFile, ncVars, upVars, vaVars, paVars, hdVars, piVars>>

\* The await throws (the model call failed): the catch answers.
ModelRejects(i) ==
  /\ anPc[i] = "awaiting"
  /\ anResp' = [anResp EXCEPT ![i] = aiError("request failed")]
  /\ anLog' = [anLog EXCEPT ![i] = "request failed"]
  /\ anPc' = [anPc EXCEPT ![i] = "done"]
  /\ UNCHANGED <<anFile, anContent, ncVars, upVars, vaVars, paVars, shared, hdVars, piVars>>

AnalyzeNext == \E i \in Requests : Receive(i) \/ ModelReplies(i) \/ ModelRejects(i)

SpecAnalyze == AnalyzeInit /\ [][AnalyzeNext]_vars

(***************************************************************************)
ValidateInit ==
  /\ vaAnswer \in ParsedInputs
  /\ vaParsed = vaAnswer
  /\ vaResult = NoResult
  /\ vaPc = "parsed"
  /\ NcIdle /\ UpIdle /\ PaIdle /\ AnIdle /\ SharedInit
  /\ HdIdle /\ PiIdle

\* const validated = validateAIResponse(parsed);
\* the call returns parsed, with board and crop possibly reassigned ...
ValidateReturns ==
  /\ vaPc = "parsed"
  /\ LET r == validateAIResponse(vaParsed)
     IN  /\ ~r.threw
         /\ vaParsed' = r.data
         /\ vaResult' = [threw |-> FALSE, message |-> r.message, value |-> r.value]
  /\ LET after == sharedAfterValidate(allowedBoards, fallbackCrop, vaParsed)
     IN  allowedBoards' = after[1] /\ fallbackCrop' = after[2]
  /\ vaPc' = "validated"
  /\ UNCHANGED <<vaAnswer, ncVars, upVars, paVars, anVars, hdVars, piVars>>

\* ... or throws, and control passes to the handler's catch.
ValidateThrows ==
  /\ vaPc = "parsed"
  /\ LET r == validateAIResponse(vaParsed)
     IN  /\ r.threw
         /\ vaParsed' = r.data
         /\ vaResult' = [threw |-> TRUE, message |-> r.message, value |-> NoRecord]
  /\ LET after == sharedAfterValidate(allowedBoards, fallbackCrop, vaParsed)
     IN  allowedBoards' = after[1] /\ fallbackCrop' = after[2]
  /\ vaPc' = "failed"
  /\ UNCHANGED <<vaAnswer, ncVars, upVars, paVars, anVars, hdVars, piVars>>

ValidateNext == ValidateReturns \/ ValidateThrows

SpecValidate == ValidateInit /\ [][ValidateNext]_vars

(***************************************************************************)
(* Properties of normalizeCrop (checked under SpecCrop)                    *)
(***************************************************************************)
\* All four fields of an object are finite numbers.
NumericRect(c) ==
  /\ c.t = "object"
  /\ c.x.t = "number" /\ c.y.t = "number"
  /\ c.width.t = "number" /\ c.height.t = "number"

\* The range invariant: x, y in [0,1], width, height in (0,1].
InRange(c) ==
  /\ NumericRect(c)
  /\ 0 <= c.x.v /\ c.x.v <= Scale
  /\ 0 <= c.y.v /\ c.y.v <= Scale
  /\ 0 < c.width.v /\ c.width.v <= Scale
  /\ 0 < c.height.v /\ c.height.v <= Scale

Normalized == ncPc \in {"normalized", "renormalized"}

\* C1: under either policy, whatever the input (missing, not an object,
\* non-numeric fields, negative, zero, above 1), normalizeCrop returns a
\* rectangle with x, y in [0,1] and width, height in (0,1].
C1_AlwaysInRange == Normalized => InRange(ncOut)

\* C7: under the strict-fallback policy a rectangle whose four fields are
\* numbers in range is returned as it is.
C7_StrictKeepsValid ==
  (Normalized /\ ncPolicy = "strict" /\ InRange(ncCrop)) => ncOut = ncCrop

\* A valid rectangle other than the default went through the strict variant
\* and came back unchanged.
C7_Witness ==
  /\ ncPc = "normalized" /\ ncPolicy = "strict"
  /\ InRange(ncCrop) /\ ncCrop # DefaultCrop
  /\ ncCrop.x.v = Scale /\ ncCrop.width.v = 1
  /\ ncOut = ncCrop

\* C8: under the strict-fallback policy four numeric fields of which at
\* least one is out of range give exactly the default rectangle: no field of
\* the input survives.
C8_StrictFallsBack ==
  (Normalized /\ ncPolicy = "strict" /\ NumericRect(ncCrop) /\ ~InRange(ncCrop))
    => ncOut = DefaultCrop

\* Only the width is out of range (it is 0), and the three in-range fields
\* were dropped with it.
C8_Witness ==
  /\ ncPc = "normalized" /\ ncPolicy = "strict"
  /\ NumericRect(ncCrop)
  /\ ncCrop.x.v = Scale \div 2 /\ ncCrop.y.v = Scale \div 2
  /\ ncCrop.width.v = 0 /\ ncCrop.height.v = Scale
  /\ ncOut = DefaultCrop

\* C9: under the rescale policy four numeric fields of which at least one is
\* out of range give a rectangle that satisfies the range invariant.
C9_RescaleInRange ==
  (Normalized /\ ncPolicy = "rescale" /\ NumericRect(ncCrop) /\ ~InRange(ncCrop))
    => InRange(ncOut)

\* C10: under the rescale policy normalizeCrop is idempotent on numeric
\* input: applying it to its own result returns that result.
C10_RescaleIdempotent ==
  (ncPc = "renormalized" /\ ncPolicy = "rescale" /\ NumericRect(ncCrop))
    => ncOut2 = ncOut

(***************************************************************************)
(* Properties of the pixel crop (checked under SpecUpload)                 *)
(***************************************************************************)
\* The four pixel values are integers (none is NaN).
IntegerPixels(px) ==
  px.x.t = "number" /\ px.y.t = "number" /\ px.w.t = "number" /\ px.h.t = "number"

\* The rectangle lies inside a dims.width x dims.height image and has
\* positive area.
InsideImage(px, dims) ==
  /\ IntegerPixels(px)
  /\ px.x.v >= 0 /\ px.y.v >= 0
  /\ px.w.v >= 1 /\ px.h.v >= 1
  /\ px.x.v + px.w.v <= dims.width
  /\ px.y.v + px.h.v <= dims.height

\* C2: for every image size W, H >= 1 and every relative rectangle with
\* x, y in [0,1] and width, height in (0,1], the pixel rectangle is made of
\* integers with x_px >= 0, y_px >= 0, w_px >= 1, h_px >= 1,
\* x_px + w_px <= W and y_px + h_px <= H.
C2_PixelCropInside ==
  (upPc = "computed" /\ InRange(upCrop)) => InsideImage(upPx, upDims)

\* A valid rectangle whose rounded width does not fit right of x_px: the
\* width was cut to the remaining space.
C2_Witness ==
  /\ upPc = "computed" /\ InRange(upCrop)
  /\ upDims.width = 2
  /\ upCrop.x.v = Scale \div 2 /\ upCrop.width.v = Scale
  /\ upPx.x.v = 1 /\ upPx.w.v = 1

\* C17: the conversion never fails, and for any rectangle of four numbers
\* (negative, zero or above 1 in any field) and any W, H >= 1 it returns
\* integers with 0 <= x_px <= W-1, 0 <= y_px <= H-1, w_px >= 1, h_px >= 1,
\* x_px + w_px <= W and y_px + h_px <= H.
C17_PixelCropClamps ==
  (upPc = "computed" /\ NumericRect(upCrop)) =>
    /\ IntegerPixels(upPx)
    /\ InsideImage(upPx, upDims)
    /\ upPx.x.v <= upDims.width - 1 /\ upPx.y.v <= upDims.height - 1

\* A rectangle far to the right with a negative width and a zero height:
\* x_px is held at W-1 and both sizes are raised to 1.
C17_Witness ==
  /\ upPc = "computed" /\ NumericRect(upCrop)
  /\ upDims.width = 3 /\ upDims.height = 2
  /\ upCrop.x.v > Scale /\ upCrop.width.v < 0 /\ upCrop.height.v = 0
  /\ upCrop.y.v < 0
  /\ upPx.x.v = 2 /\ upPx.w.v = 1 /\ upPx.y.v = 0 /\ upPx.h.v = 1

(***************************************************************************)
(* Properties of validateAIResponse (checked under SpecValidate)           *)
(***************************************************************************)
TitleOK(r) ==
  r.pinterest_title.t = "string" /\ Len(r.pinterest_title.s) >= 15

DescriptionOK(r) ==
  /\ r.pinterest_description.t = "string"
  /\ Len(r.pinterest_description.s) >= 250
  /\ Len(r.pinterest_description.s) <= 850

KeywordsOK(r) ==
  r.keywords.t = "array" /\ Len(r.keywords.a) >= 3 /\ Len(r.keywords.a) <= 12

BoardAllowed(b) ==
  /\ b.t = "string"
  /\ b.s \in {"Portugal Gift Ideas", "Portuguese Home Decor",
              "Lisbon Travel Gifts", "Azulejo Art"}

Decided == vaPc \in {"validated", "failed"}

\* C3: the board of a returned record is a member of the allow-list: an
\* allowed board is kept, any other value (missing and non-string ones too)
\* becomes the first entry, and the board never makes the call throw.
C3_BoardInAllowList ==
  /\ vaPc = "validated" =>
       /\ BoardAllowed(vaResult.value.board)
       /\ BoardAllowed(vaAnswer.board) => vaResult.value.board = vaAnswer.board
       /\ ~BoardAllowed(vaAnswer.board) =>
            vaResult.value.board = Str("Portugal Gift Ideas")
  /\ (Decided /\ TitleOK(vaAnswer) /\ DescriptionOK(vaAnswer) /\ KeywordsOK(vaAnswer))
       => vaPc = "validated"

\* "Nonexistent Board" was replaced by the first entry and a record returned.
C3_Witness ==
  /\ vaPc = "validated" /\ ~vaResult.threw
  /\ vaAnswer.board = Str("Nonexistent Board")
  /\ vaResult.value.board = Str("Portugal Gift Ideas")

\* C4: the call throws for every record whose keywords is no array or has
\* fewer than 3 or more than 12 entries, and returns for every array of 3 to
\* 12 entries when title and description are valid.
C4_KeywordsCardinality ==
  /\ (Decided /\ ~KeywordsOK(vaAnswer)) => (vaPc = "failed" /\ vaResult.threw)
  /\ (Decided /\ TitleOK(vaAnswer) /\ DescriptionOK(vaAnswer) /\ KeywordsOK(vaAnswer))
       => (vaPc = "validated" /\ ~vaResult.threw)

\* Two keywords under a valid title and description: rejected for the
\* keywords.
C4_Witness ==
  /\ vaPc = "failed" /\ vaResult.threw
  /\ TitleOK(vaAnswer) /\ DescriptionOK(vaAnswer)
  /\ vaAnswer.keywords.t = "array" /\ Len(vaAnswer.keywords.a) = 2
  /\ vaResult.message = "Invalid keywords array"

\* C5: the call throws and returns no record whenever title is no string or
\* shorter than 15 characters, or description is no string or its length is
\* below 250 or above 850; the record is left as it was (no repair).
C5_TitleDescriptionRejected ==
  (Decided /\ (~TitleOK(vaAnswer) \/ ~DescriptionOK(vaAnswer)))
    => /\ vaPc = "failed" /\ vaResult.threw
       /\ vaResult.value = NoRecord
       /\ vaParsed = vaAnswer

\* A description of 851 characters under a valid title: rejected, although
\* board and crop were in need of repair.
C5_Witness ==
  /\ vaPc = "failed" /\ vaResult.threw
  /\ TitleOK(vaAnswer)
  /\ vaAnswer.pinterest_description.t = "string"
  /\ Len(vaAnswer.pinterest_description.s) = 851
  /\ KeywordsOK(vaAnswer)
  /\ ~BoardAllowed(vaAnswer.board) /\ vaAnswer.crop.t = "undefined"
  /\ vaResult.message = "Invalid description length"

\* C6: a crop that is missing, or has one of x, y, width, height not a
\* finite number, or has a field out of range, is replaced by the fallback
\* rectangle without an error; so every returned record has a crop with four
\* numeric fields in range.
C6_CropRepaired ==
  vaPc = "validated" =>
    /\ InRange(vaResult.value.crop)
    /\ ~InRange(vaAnswer.crop) => vaResult.value.crop = FALLBACK_CROP

(***************************************************************************)
(* Missing crop, valid records, side effects, keyword elements             *)
(***************************************************************************)
\* C11: under either policy a crop that is null or undefined comes back as
\* the default rectangle { x: 0.1, y: 0.05, width: 0.8, height: 0.9 }, which
\* satisfies the range invariant.
C11_MissingCropDefault ==
  (Normalized /\ ncCrop.t \in {"undefined", "null"}) =>
    /\ ncOut = Rect(Num(1000), Num(500), Num(8000), Num(9000))
    /\ InRange(ncOut)

C11_Witness ==
  /\ ncPc = "normalized" /\ ncPolicy = "rescale" /\ ncCrop.t = "null"
  /\ ncOut.x = Num(1000) /\ ncOut.height = Num(9000)

FullyValid(r) ==
  /\ TitleOK(r) /\ DescriptionOK(r) /\ KeywordsOK(r)
  /\ BoardAllowed(r.board) /\ InRange(r.crop)

\* C14: a record that is valid in every field (title, description and
\* keywords within their bounds, board in the allow-list, crop inside the
\* range invariant) is returned, and returned equal to the input field for
\* field.
C14_ValidRecordUnchanged ==
  (Decided /\ FullyValid(vaAnswer)) =>
    /\ vaPc = "validated"
    /\ vaResult.value = vaAnswer

C14_Witness ==
  /\ vaPc = "validated" /\ FullyValid(vaAnswer)
  /\ vaAnswer.board = Str("Azulejo Art")
  /\ vaAnswer.crop = Rect(Num(1000), Num(500), Num(8000), Num(9000))
  /\ vaResult.value = vaAnswer

SharedUntouched ==
  allowedBoards = ALLOWED_BOARDS /\ fallbackCrop = FALLBACK_CROP

HasNonString(list) ==
  list.t = "array" /\ \E i \in 1 .. Len(list.a) : list.a[i].t # "string"

\* C16: keywords must be an array of strings: a record whose keywords array
\* has 3 to 12 entries of which one is not a string is rejected.
C16_KeywordElementsChecked ==
  (Decided /\ KeywordsOK(vaAnswer) /\ HasNonString(vaAnswer.keywords))
    => vaPc = "failed"

(***************************************************************************)
(* Properties of the model-text parsing (checked under SpecParse)          *)
(***************************************************************************)
Sent == paPc = "sent"

\* The text is a JSON text inside an opening fence (bare or with a language
\* tag) and a closing fence, with or without whitespace around them.
Fenced ==
  /\ paText.t = "string"
  /\ paParts.open # << >> /\ paParts.close # << >>
  /\ JsonParse(paParts.payload).ok

\* C12: for every valid JSON text j, the text made of an opening fence with
\* or without a language tag (any tag), j and a closing fence, with
\* whitespace around them, parses to the value a strict parse of j gives.
C12_FencedParsesAsStrict ==
  (Sent /\ Fenced) => paOut.parsed = JsonParse(paParts.payload)

\* C13: when the text is empty after the fences are removed, or is no valid
\* JSON, the caller gets exactly one response and it is an error (status
\* 500 with an error message, in part_001 with the raw text), no exception
\* escapes the handler, no record is sent and normalizeCrop is not applied.
C13_ParseFailureIsErrorResponse ==
  (Sent /\ ~JsonParse(paOut.clean).ok) =>
    /\ Len(paOut.responses) = 1
    /\ paOut.responses[1].status = 500
    /\ paOut.responses[1].error \in
         {"Invalid JSON from AI", "Empty AI response", "AI analysis failed"}
    /\ paOut.responses[1].record = NoParsed
    /\ ~paOut.normalized

\* "not", unfenced, in part_001: the error carries the raw text.
C13_Witness ==
  /\ Sent /\ paVariant = "part_001"
  /\ paText = Text(<<"not">>)
  /\ ~JsonParse(paOut.clean).ok
  /\ paOut.responses = <<ErrorResponse(500, "Invalid JSON from AI", <<"not">>)>>
  /\ ~paOut.normalized

(***************************************************************************)
(* Properties of the analyze endpoint (checked under SpecAnalyze)          *)
(***************************************************************************)
\* Request i got the model's reply and has answered.
Replied(i) == anPc[i] = "done" /\ anContent[i] # NoContent

ParseFailed(i) == Replied(i) /\ anContent[i].kind = "not json"

\* The reply was an object that fails a length or cardinality check.
ValidationFailed(i) ==
  /\ Replied(i) /\ anContent[i].kind = "json object"
  /\ ~(TitleOK(anContent[i].value) /\ DescriptionOK(anContent[i].value)
         /\ KeywordsOK(anContent[i].value))

\* The reply was an object with nothing worse than a defective board or crop.
OnlyRepairable(i) ==
  /\ Replied(i) /\ anContent[i].kind = "json object"
  /\ TitleOK(anContent[i].value) /\ DescriptionOK(anContent[i].value)
  /\ KeywordsOK(anContent[i].value)

ValidationMessages ==
  {"Invalid title from AI", "Invalid description length", "Invalid keywords array"}

C19_OnlyValidRecordsSent ==
  /\ \A i \in Requests :
       anResp[i].status = 200 =>
         /\ TitleOK(anResp[i].record) /\ DescriptionOK(anResp[i].record)
         /\ KeywordsOK(anResp[i].record) /\ BoardAllowed(anResp[i].record.board)
  /\ \A i \in Requests :
       ValidationFailed(i) => (anResp[i].status # 200 /\ anResp[i].record = NoRecord)

\* A reply with an unknown board was sent with the board repaired, and a
\* reply with too few keywords was discarded.
C19_Witness ==
  /\ Replied(1) /\ anContent[1].value.board = Str("Nonexistent Board")
  /\ anResp[1].status = 200 /\ anResp[1].record.board = Str("Portugal Gift Ideas")
  /\ ValidationFailed(2) /\ anResp[2].status = 500 /\ anResp[2].record = NoRecord

\* What the analyze operation owes a request, from that request's reply and
\* the initial allow-list and fallback rectangle alone.
ExpectedRecord(r) ==
  [r EXCEPT
     !.board = IF BoardAllowed(r.board) THEN r.board ELSE Str("Portugal Gift Ideas"),
     !.crop = IF r.crop.t = "object" /\ r.crop.x.t = "number" THEN r.crop
              ELSE Rect(Num(1000), Num(1000), Num(8000), Num(8000))]

Expected(c) ==
  IF /\ c.kind = "json object"
     /\ TitleOK(c.value) /\ DescriptionOK(c.value) /\ KeywordsOK(c.value)
  THEN AnRecord(ExpectedRecord(c.value))
  ELSE AnError(500, "AI analysis failed")

\* C20: however the requests interleave, the allow-list and the fallback
\* rectangle keep their initial values and what a request gets depends on
\* its own model output only.
C20_RequestsIndependent ==
  /\ SharedUntouched
  /\ \A i \in Requests : Replied(i) => anResp[i] = Expected(anContent[i])

\* One request had its board and crop repaired, the other one, with the
\* first board of the list, got its record back as it was.
C20_Witness ==
  /\ Replied(1) /\ Replied(2)
  /\ anContent[1].value.board = Undefined /\ anContent[1].value.crop.t = "null"
  /\ anResp[1].record.board = Str("Portugal Gift Ideas")
  /\ anResp[1].record.crop = FALLBACK_CROP
  /\ anContent[2].value.board = Str("Portugal Gift Ideas")
  /\ anResp[2] = AnRecord(anContent[2].value)
  /\ SharedUntouched

(***************************************************************************)
(* The pixel computation, value by value (checked under SpecPixel)         *)
(***************************************************************************)
\* k is round(f * side) for a fraction f counted in 1/Scale: the integer
\* with k - 1/2 <= f * side < k + 1/2.
IsRounded(k, f, side) ==
  /\ 2 * Scale * k - Scale <= 2 * f * side
  /\ 2 * f * side < 2 * Scale * k + Scale

\* v is k clamped to [lo, hi].
IsClamped(v, k, lo, hi) ==
  IF k < lo THEN v = lo ELSE IF k > hi THEN v = hi ELSE v = k

\* start and size are the clamped roundings of the fractions f and g along a
\* side: start in [0, side - 1], size in [1, side - start].
AlongSide(start, size, f, g, side) ==
  /\ \E k \in -2 * side .. 2 * side :
       IsRounded(k, f, side) /\ IsClamped(start, k, 0, side - 1)
  /\ \E k \in -2 * side .. 2 * side :
       IsRounded(k, g, side) /\ IsClamped(size, k, 1, side - start)

\* C22: for every rectangle of four numbers and every W, H >= 1, x_px is
\* round(x * W) clamped to [0, W-1] and w_px is round(width * W) clamped to
\* [1, W - x_px], the space left of x_px onward, not W; y_px and h_px
\* likewise with H.
C22_PixelCropFormula ==
  (upPc = "computed" /\ NumericRect(upCrop)) =>
    /\ IntegerPixels(upPx)
    /\ AlongSide(upPx.x.v, upPx.w.v, upCrop.x.v, upCrop.width.v, upDims.width)
    /\ AlongSide(upPx.y.v, upPx.h.v, upCrop.y.v, upCrop.height.v, upDims.height)

\* x = 0.25 of W = 2 is the tie 0.5, rounded up to 1; the full width then
\* has one pixel left.  y = 1.25 of H = 3 is held at 2.
C22_Witness ==
  /\ upPc = "computed" /\ NumericRect(upCrop)
  /\ upDims.width = 2 /\ upDims.height = 3
  /\ 4 * upCrop.x.v = Scale /\ upCrop.width.v = Scale
  /\ upPx.x.v = 1 /\ upPx.w.v = 1
  /\ 4 * upCrop.y.v = 5 * Scale /\ upPx.y.v = 2 /\ upPx.h.v = 1

(***************************************************************************)
(* The rescale policy, value by value (checked under SpecCrop)             *)
(***************************************************************************)
Larger(a, b) == IF a >= b THEN a ELSE b

Magnitude(a) == IF a >= 0 THEN a ELSE -a

\* r is f / m rounded to 4 decimal places (f, m, r counted in 1/Scale,
\* m > 0): no more than half a unit away, and on a tie the one further from
\* zero.
IsFixed4(r, f, m) ==
  LET d == r * m - f * Scale
  IN  /\ 2 * Magnitude(d) <= m
      /\ 2 * Magnitude(d) = m => Magnitude(r * m) > Magnitude(f * Scale)

\* C23: under the rescale policy a rectangle of four numbers that are all
\* in range is returned as it is, also when x + width > 1 or
\* y + height > 1; any other one comes back as x / maxX, width / maxX,
\* y / maxY, height / maxY, each rounded to 4 decimal places, with
\* maxX = max(x + width, 1) and maxY = max(y + height, 1).
C23_RescaleFormula ==
  (ncPc = "normalized" /\ ncPolicy = "rescale" /\ NumericRect(ncCrop)) =>
    IF InRange(ncCrop) THEN ncOut = ncCrop
    ELSE LET maxX == Larger(ncCrop.x.v + ncCrop.width.v, Scale)
             maxY == Larger(ncCrop.y.v + ncCrop.height.v, Scale)
         IN  /\ NumericRect(ncOut)
             /\ IsFixed4(ncOut.x.v, ncCrop.x.v, maxX)
             /\ IsFixed4(ncOut.width.v, ncCrop.width.v, maxX)
             /\ IsFixed4(ncOut.y.v, ncCrop.y.v, maxY)
             /\ IsFixed4(ncOut.height.v, ncCrop.height.v, maxY)

\* { x: 1.5, y: 0.5, width: 1.5, height: 1 }: maxX = 3, maxY = 1.5, and the
\* result is { 0.5, 0.3333, 0.5, 0.6667 }.
C23_Witness ==
  /\ ncPc = "normalized" /\ ncPolicy = "rescale"
  /\ ncCrop = Rect(Num(15000), Num(5000), Num(15000), Num(10000))
  /\ ncOut = Rect(Num(5000), Num(3333), Num(5000), Num(6667))

(***************************************************************************)
(* The upload handlers as a whole (SpecUpload4, SpecUpload)                *)
(***************************************************************************)
\* C24: in the v4.0 handler, for every W, H >= 1 and every crop, from the
\* body or the fallback, the rectangle sent to the media service has
\* w >= 1, h >= 1, x + w <= W and y + h <= H.
C24_Upload4BoundsSafe ==
  upPc = "computed" => InsideImage(upPx, upDims)

\* C25: in the v3.7.1 handler, for every crop body the parsing step accepts
\* or replaces by the fallback, x, y, w, h sent to the media service are
\* integers, never NaN, with 0 <= x <= W-1, 0 <= y <= H-1, 1 <= w <= W-x
\* and 1 <= h <= H-y.
C25_UploadNeverNaN ==
  upPc = "computed" =>
    /\ IntegerPixels(upPx)
    /\ InsideImage(upPx, upDims)
    /\ upPx.x.v <= upDims.width - 1 /\ upPx.y.v <= upDims.height - 1

(***************************************************************************)
(* Fence removal in detail (checked under SpecParse)                       *)
(***************************************************************************)
\* The text has a fence at its start, at its end or at both, with no
\* language tag or the tag json.
FenceAtAnEnd ==
  /\ paText.t = "string"
  /\ paParts.open \in {<< >>, <<FENCE>>, <<FENCE, "json">>}
  /\ paParts.open # << >> \/ paParts.close # << >>

\* C26: only a fence at the very start and at the very end of the text is
\* removed, whether there is one at the start only, at the end only or at
\* both; what stands between them, three backticks inside a JSON string
\* included, reaches the JSON parser as it was written.
C26_OnlyOuterFencesRemoved ==
  (Sent /\ FenceAtAnEnd /\ paParts.payload # << >>) => paOut.clean = paParts.payload

(***************************************************************************)
(* Properties of the handlers' control flow (checked under SpecHandler)    *)
(***************************************************************************)
\* The model answered and the answer was of no use: the response is an
\* error.
ReplyFailed ==
  /\ hdReply # NoReply
  /\ \E i \in 1 .. Len(hdSent) : hdSent[i] >= 400

\* C21: the model is called at most once for a request, and after a parse
\* or validation failure the request ends with an error, with no second
\* call.
C21_NeverRetries ==
  /\ hdCalls <= 1
  /\ (hdReply # NoReply /\ replyStatuses(hdVariant, hdReply) # <<200>>) =>
       (hdPc = "done" /\ hdCalls = 1 /\ ReplyFailed)

C21_Witness ==
  /\ hdVariant = "part_001" /\ hdReply = Reply(Text(<<"not">>), NoContent)
  /\ hdPc = "done" /\ hdCalls = 1 /\ hdSent = <<500>>

\* The request has no file, or, where the handler looks at it, a file that
\* is no image.
BadUpload ==
  \/ hdFile = "none"
  \/ hdVariant \in {"v3.7.1", "v4.0"} /\ hdFile # "image/png"

C29_ExactlyOneResponse ==
  /\ hdPc = "done" => Len(hdSent) = 1
  /\ hdPc # "done" => hdSent = << >>

\* The validation failure path of v3.7.1.
C29_Witness ==
  /\ hdVariant = "v3.7.1" /\ hdPc = "done"
  /\ hdReply.content.kind = "json object"
  /\ ~KeywordsOK(hdReply.content.value)
  /\ hdSent = <<500>> /\ hdCalls = 1

(***************************************************************************)
(* A failed validation (checked under SpecValidate)                        *)
(***************************************************************************)
\* C28: when validateAIResponse throws (title, description or keywords
\* invalid) the parsed object is as it was before the call: board and crop
\* are repaired only once the three checks have passed, so no record is
\* repaired and then rejected.
C28_FailureLeavesParsedAlone ==
  /\ vaPc = "failed" =>
       (vaParsed = vaAnswer /\ vaResult.threw /\ vaResult.value = NoRecord)
  /\ (Decided /\ vaParsed # vaAnswer) =>
       (TitleOK(vaAnswer) /\ DescriptionOK(vaAnswer) /\ KeywordsOK(vaAnswer))

\* A record with an unknown board, no crop and too few keywords is rejected
\* with board and crop as they came.
C28_Witness ==
  /\ vaPc = "failed" /\ vaResult.message = "Invalid keywords array"
  /\ vaAnswer.board = Str("Nonexistent Board") /\ vaAnswer.crop.t = "null"
  /\ vaParsed.board = Str("Nonexistent Board") /\ vaParsed.crop.t = "null"

(***************************************************************************)
(* The Pinterest endpoints (checked under SpecPinterest)                   *)
(***************************************************************************)
Incomplete(i) == piPc[i] # "idle" /\ IsFalsy(piCred[i])

\* C30: a Pinterest request without its credential is rejected before any
\* outbound call: boards and pins answer 401 without an Authorization
\* header, refresh answers 400 without refresh_token, callback answers 400
\* without code, and Pinterest is not called for that request.
C30_IncompleteRejectedBeforeCall ==
  \A i \in Requests :
    /\ Incomplete(i) =>
         /\ piPc[i] = "done" /\ piCalls[i] = 0
         /\ piEndpoint[i] \in {"boards", "pins"} => piSent[i] = <<401>>
         /\ piEndpoint[i] \in {"refresh", "callback"} => piSent[i] = <<400>>
    /\ piCalls[i] > 0 => ~IsFalsy(piCred[i])

\* One request to refresh without refresh_token was answered 400 while
\* another request with a credential went out to Pinterest.
C30_Witness ==
  \E i, j \in Requests :
    /\ piEndpoint[i] = "refresh" /\ piCred[i] = Undefined
    /\ piPc[i] = "done" /\ piSent[i] = <<400>> /\ piCalls[i] = 0
    /\ piEndpoint[j] = "boards" /\ piCred[j] = Str("tok") /\ piCalls[j] = 1

====
